---------------------------- MODULE Spec2Model ----------------------------
(***************************************************************************)
(* A model of statsmodels/regression/_tools.py: the class _MinimalWLS      *)
(* (__init__ and fit) together with the caller that owns the data arrays.  *)
(*                                                                         *)
(* Numbers.  numpy's float64 values are modelled by exact rationals        *)
(* <<numerator, denominator>> in lowest terms.  Weights are drawn from     *)
(* perfect squares, so that np.sqrt is exact.  Rounding is modelled only   *)
(* where it changes which way the code goes rather than the last digits of *)
(* a value: the QR factorisation of a design with a dependent column (see  *)
(* qr_input).                                                              *)
(*                                                                         *)
(* Objects.  A numpy array is a mutable object; the solver and the result  *)
(* store references to the arrays the caller passed in.  `mem` is the heap *)
(* of the caller's arrays, and a field that holds such an array holds its  *)
(* name in `mem`.  Arrays that __init__ and fit create (wendog, wexog,     *)
(* params, ...) are fresh and reachable only through the record that owns  *)
(* them, so they are stored by value.                                      *)
(***************************************************************************)
EXTENDS Integers, Sequences, FiniteSets, TLC

(***************************************************************************)
(* Exact rational arithmetic (float64 arithmetic without rounding).        *)
(***************************************************************************)
RECURSIVE GCD(_, _)
GCD(a, b) == IF b = 0 THEN a ELSE GCD(b, a % b)

Abs(a) == IF a < 0 THEN -a ELSE a

Norm(n, d) ==
    LET g == GCD(Abs(n), Abs(d))
        s == IF d < 0 THEN -1 ELSE 1
    IN  <<(s * n) \div g, (s * d) \div g>>

Rat(n) == <<n, 1>>
Zero == <<0, 1>>
One == <<1, 1>>

\* (common factors are divided out before multiplying, to keep the
\* intermediate integers small)
RAdd(a, b) ==
    LET g == GCD(a[2], b[2])
    IN  Norm(a[1] * (b[2] \div g) + b[1] * (a[2] \div g), (a[2] \div g) * b[2])
RNeg(a) == <<-a[1], a[2]>>
RSub(a, b) == RAdd(a, RNeg(b))
RMul(a, b) ==
    LET g1 == GCD(Abs(a[1]), b[2])
        g2 == GCD(Abs(b[1]), a[2])
    IN  <<(a[1] \div g1) * (b[1] \div g2), (a[2] \div g2) * (b[2] \div g1)>>
RInv(a) == IF a[1] < 0 THEN <<-a[2], -a[1]>> ELSE <<a[2], a[1]>>
RDiv(a, b) == RMul(a, RInv(b))

\* np.sqrt on a value that is an exact square
ISqrt(n) == CHOOSE r \in 0..n : r * r = n
sqrt(a) == <<ISqrt(a[1]), ISqrt(a[2])>>

(***************************************************************************)
(* Vectors are sequences of rationals, matrices sequences of rows.         *)
(***************************************************************************)
RECURSIVE SumTo(_, _)
SumTo(f, n) == IF n = 0 THEN Zero ELSE RAdd(SumTo(f, n - 1), f[n])

\* np.dot of two 1-d arrays
dot(u, v) == SumTo([i \in 1..Len(u) |-> RMul(u[i], v[i])], Len(u))

NRows(A) == Len(A)
NCols(A) == Len(A[1])
Column(A, j) == [i \in 1..NRows(A) |-> A[i][j]]

\* A.dot(v) for a 2-d A and a 1-d v
matvec(A, v) == [i \in 1..NRows(A) |-> dot(A[i], v)]

transpose(A) == [j \in 1..NCols(A) |-> Column(A, j)]

\* np.dot of two 2-d arrays
matmul(A, B) ==
    [i \in 1..NRows(A) |-> [j \in 1..NCols(B) |-> dot(A[i], Column(B, j))]]

VSub(u, v) == [i \in 1..Len(u) |-> RSub(u[i], v[i])]
VAdd(u, v) == [i \in 1..Len(u) |-> RAdd(u[i], v[i])]
VScale(c, v) == [i \in 1..Len(v) |-> RMul(c, v[i])]
IsZeroVec(v) == \A i \in 1..Len(v) : v[i] = Zero


(***************************************************************************)
(* np.linalg.pinv: the Moore-Penrose pseudoinverse.  numpy obtains it from *)
(* an SVD with a cutoff on the small singular values; the matrix it        *)
(* approximates is unique, and is computed here exactly, column by column, *)
(* with Greville's recursion.  Greville(A, j) is the pseudoinverse (j x n) *)
(* of the first j columns of the n x k matrix A.                           *)
(***************************************************************************)
RECURSIVE Greville(_, _)
Greville(A, j) ==
    LET n == NRows(A)
        a == Column(A, j)
    IN  IF j = 1
        THEN << IF IsZeroVec(a) THEN a ELSE VScale(RDiv(One, dot(a, a)), a) >>
        ELSE LET P == Greville(A, j - 1)
                 d == matvec(P, a)
                 Ad == [i \in 1..n |-> dot([l \in 1..(j - 1) |-> A[i][l]], d)]
                 c == VSub(a, Ad)
                 b == IF IsZeroVec(c)
                      THEN VScale(RDiv(One, RAdd(One, dot(d, d))),
                                  matvec(transpose(P), d))
                      ELSE VScale(RDiv(One, dot(c, c)), c)
             IN  [l \in 1..j |-> IF l < j THEN VSub(P[l], VScale(d[l], b)) ELSE b]

pinv(A) == Greville(A, NCols(A))

(***************************************************************************)
(* np.linalg.lstsq(A, b)[0]: LAPACK's SVD-based driver returns the least   *)
(* squares solution of minimum norm, also when A is rank deficient; that   *)
(* solution is pinv(A).b .                                                 *)
(***************************************************************************)
lstsq(A, b) == matvec(pinv(A), b)

(***************************************************************************)
(* np.linalg.qr(A), reduced mode: A = Q.R, Q with orthonormal columns, R   *)
(* upper triangular.  The entries of Q and R are square roots; the model   *)
(* keeps the factorisation in its square-root-free form                    *)
(*      A = Qt . Rt,   Qt with orthogonal columns q_j of squared length    *)
(*      d_j, Rt unit upper triangular,                                     *)
(* so that Q = Qt.D^(-1/2) and R = D^(1/2).Rt with D = diag(d).  R is      *)
(* singular exactly when some d_j is zero.  GramSchmidt(A, j) is the       *)
(* sequence of the first j columns' records [q, d, r], r[i] = Rt[i][j].    *)
(***************************************************************************)
LinComb(coef, vecs, m, n) ==
    [t \in 1..n |-> SumTo([i \in 1..m |-> RMul(coef[i], vecs[i][t])], m)]

RECURSIVE GramSchmidt(_, _)
GramSchmidt(A, j) ==
    IF j = 0 THEN <<>>
    ELSE LET prev == GramSchmidt(A, j - 1)
             a == Column(A, j)
             r == [i \in 1..(j - 1) |->
                     IF prev[i].d = Zero THEN Zero
                     ELSE RDiv(dot(prev[i].q, a), prev[i].d)]
             q == VSub(a, LinComb(r, [i \in 1..(j - 1) |-> prev[i].q],
                                  j - 1, NRows(A)))
         IN  Append(prev, [q |-> q, d |-> dot(q, q), r |-> r])

\* the columns of A that depend linearly on the columns before them
DependentCols(A) == {j \in 1..NCols(A) : GramSchmidt(A, NCols(A))[j].d = Zero}
RankDeficient(A) == DependentCols(A) # {}

(***************************************************************************)
(* Rounding in the factorisation.  LAPACK's Householder QR is backward     *)
(* stable: the R it returns is the exact factor of a matrix within         *)
(* rounding distance of A.  For a full-rank A that moves R in its last     *)
(* digits only.  For a nonzero column that depends on the columns before   *)
(* it, the eliminated pivot comes out either exactly zero or as a rounding *)
(* residue (1e-16 rather than 0), depending on the data and the BLAS in    *)
(* use; a zero column always gives an exactly zero pivot.  `rounding`      *)
(* names which of the two the build produces: with "residue" the           *)
(* factorisation is that of A with Ulp added to the last entry of each     *)
(* dependent nonzero column.                                               *)
(***************************************************************************)
Ulp == <<1, 4>>

qr_input(A, rnd) ==
    IF rnd = "exact" THEN A
    ELSE LET dep == {j \in DependentCols(A) : ~IsZeroVec(Column(A, j))}
             n == NRows(A)
         IN  [i \in 1..n |-> [j \in 1..NCols(A) |->
                IF i = n /\ j \in dep THEN RAdd(A[i][j], Ulp) ELSE A[i][j]]]

qr(A, rnd) ==
    LET B == qr_input(A, rnd) IN GramSchmidt(B, NCols(B))

\* Rt[i][l] of a factorisation F
RtEntry(F, i, l) == IF i = l THEN One ELSE IF i < l THEN F[l].r[i] ELSE Zero

\* whether np.linalg.solve(R, .) raises LinAlgError("Singular matrix")
SingularR(F) == \E j \in 1..Len(F) : F[j].d = Zero

\* np.linalg.solve(R, np.dot(Q.T, b)) by back substitution, R nonsingular:
\* R.x = Q^T.b  is  Rt.x = D^(-1).Qt^T.b
RECURSIVE BackSub(_, _, _)
BackSub(F, c, j) ==
    LET k == Len(F)
    IN  IF j > k THEN [i \in {} |-> Zero]
        ELSE LET rest == BackSub(F, c, j + 1)
                 s == SumTo([l \in 1..k |->
                              IF l > j THEN RMul(RtEntry(F, j, l), rest[l])
                              ELSE Zero], k)
                 xj == RSub(c[j], s)
             IN  [i \in j..k |-> IF i = j THEN xj ELSE rest[i]]

solve_R(F, b) ==
    LET c == [j \in 1..Len(F) |-> RDiv(dot(F[j].q, b), F[j].d)]
    IN  BackSub(F, c, 1)

\* np.dot(R.T, R) = Rt^T . D . Rt
RtR(F) ==
    LET k == Len(F)
    IN  [i \in 1..k |-> [j \in 1..k |->
          SumTo([l \in 1..k |->
                   RMul(RMul(RtEntry(F, l, i), F[l].d), RtEntry(F, l, j))], k)]]

(***************************************************************************)
(* np.linalg.inv: raises LinAlgError when the matrix is singular, returns  *)
(* the inverse otherwise (here by cofactors).                              *)
(***************************************************************************)
Minor(M, i, j) ==
    LET k == Len(M)
    IN  [a \in 1..(k - 1) |-> [b \in 1..(k - 1) |->
          M[IF a < i THEN a ELSE a + 1][IF b < j THEN b ELSE b + 1]]]

Sign(i) == IF i % 2 = 0 THEN One ELSE <<-1, 1>>

RECURSIVE Det(_)
Det(M) ==
    IF Len(M) = 0 THEN One
    ELSE SumTo([j \in 1..Len(M) |->
                  RMul(RMul(Sign(1 + j), M[1][j]), Det(Minor(M, 1, j)))],
               Len(M))

Singular(M) == Det(M) = Zero

inv(M) ==
    LET k == Len(M)
        dt == Det(M)
    IN  [i \in 1..k |-> [j \in 1..k |->
          RDiv(RMul(Sign(i + j), Det(Minor(M, j, i))), dt)]]


(***************************************************************************)
(* State.                                                                  *)
(*   mem       the caller's arrays: endog (y), exog (X) and two weight     *)
(*             arrays w1, w2                                               *)
(*   rounding  how the build's QR rounds a dependent column (qr_input)     *)
(*   solver    <<>> before construction, else <<the _MinimalWLS instance>> *)
(*   last      <<>>, or <<the most recent fit call on `solver` and what    *)
(*             it did>>                                                    *)
(*   held      <<>>, or <<an earlier call and its outcome, which the       *)
(*             caller kept>>: cur says that it is a call on the instance   *)
(*             `solver` holds now, between that a fit call with other      *)
(*             arguments was made on that instance since                   *)
(*   nwrites   the number of in-place writes the caller has made           *)
(***************************************************************************)
VARIABLES mem, rounding, solver, last, held, nwrites

vars == <<mem, rounding, solver, last, held, nwrites>>

NObs == 3
MaxWrites == 1

\* Python's None
None == <<>>

\* A weights argument: a Python float (immutable, held by value) or a numpy
\* array of the caller (held by reference).
Scalar(q) == [kind |-> "scalar", val |-> q, ref |-> ""]
Array(name) == [kind |-> "array", val |-> Zero, ref |-> name]
isscalar(w) == w.kind = "scalar"

\* the value a weights field shows when it is read
Deref(m, w) == IF isscalar(w) THEN w.val ELSE m[w.ref]

(***************************************************************************)
(* _MinimalWLS.__init__(endog, exog, weights)                              *)
(***************************************************************************)
w_half_of(m, w) ==
    IF isscalar(w) THEN sqrt(w.val)
    ELSE [i \in 1..Len(m[w.ref]) |-> sqrt(m[w.ref][i])]

wendog_of(m, endog, w) ==
    LET w_half == w_half_of(m, w)
    IN  [i \in 1..Len(m[endog]) |->
          RMul(IF isscalar(w) THEN w_half ELSE w_half[i], m[endog][i])]

\* a variant of wexog_of: per-observation weights are not applied to exog
wexog_of_unweighted_rows(m, exog, w) ==
    IF isscalar(w)
    THEN [i \in 1..NRows(m[exog]) |-> VScale(sqrt(w.val), m[exog][i])]
    ELSE m[exog]

wexog_of(m, exog, w) ==
    LET w_half == w_half_of(m, w)
    IN  IF isscalar(w)
        THEN [i \in 1..NRows(m[exog]) |-> VScale(w_half, m[exog][i])]
        ELSE [i \in 1..NRows(m[exog]) |-> VScale(w_half[i], m[exog][i])]

init(m, endog, exog, weights) ==
    [endog   |-> endog,
     exog    |-> exog,
     weights |-> weights,
     wendog  |-> wendog_of(m, endog, weights),
     wexog   |-> wexog_of(m, exog, weights)]

(***************************************************************************)
(* _MinimalWLS.fit(cov, method)                                            *)
(***************************************************************************)
Raise == [raised |-> TRUE, params |-> None, normalized_cov_params |-> None]
Solved(params, ncp) ==
    [raised |-> FALSE, params |-> params, normalized_cov_params |-> ncp]

\* a variant of pinv_branch: the covariance is computed whatever cov says
pinv_branch_always_cov(self, cov) ==
    LET pinv_wexog == pinv(self.wexog)
    IN  Solved(matvec(pinv_wexog, self.wendog),
               matmul(pinv_wexog, transpose(pinv_wexog)))

pinv_branch(self, cov) ==
    LET pinv_wexog == pinv(self.wexog)
        params == matvec(pinv_wexog, self.wendog)
    IN  Solved(params,
               IF cov THEN matmul(pinv_wexog, transpose(pinv_wexog)) ELSE None)

qr_branch(self, cov, rnd) ==
    LET QR == qr(self.wexog, rnd)
    IN  IF SingularR(QR) THEN Raise
        ELSE IF ~cov THEN Solved(solve_R(QR, self.wendog), None)
        ELSE IF Singular(RtR(QR)) THEN Raise
        ELSE Solved(solve_R(QR, self.wendog), inv(RtR(QR)))

lstsq_branch(self, cov) ==
    LET params == lstsq(self.wexog, self.wendog)
        gram == matmul(transpose(self.wexog), self.wexog)
    IN  IF ~cov THEN Solved(params, None)
        ELSE IF Singular(gram) THEN Raise
        ELSE Solved(params, inv(gram))

\* a variant of solve_params: a selector that is none of the three documented
\* ones is rejected
solve_params_strict(self, cov, method, rnd) ==
    IF method = "pinv" THEN pinv_branch(self, cov)
    ELSE IF method = "qr" THEN qr_branch(self, cov, rnd)
    ELSE IF method = "lstsq" THEN lstsq_branch(self, cov)
    ELSE Raise

\* lines 90-106: the dispatch on method
solve_params(self, cov, method, rnd) ==
    IF method = "pinv" THEN pinv_branch(self, cov)
    ELSE IF method = "qr" THEN qr_branch(self, cov, rnd)
    ELSE lstsq_branch(self, cov)

\* a variant of fitted_values_of: the fitted values of the scaled design
fitted_values_of_scaled(m, self, params) == matvec(self.wexog, params)

\* lines 109-110
fitted_values_of(m, self, params) == matvec(m[self.exog], params)
resid_of(m, self, fitted_values) == VSub(m[self.endog], fitted_values)

\* a variant of scale_of: the scale of the unscaled residuals
scale_of_unscaled(m, self, params) ==
    LET resid == VSub(m[self.endog], matvec(m[self.exog], params))
        df_resid == NRows(self.wexog) - NCols(self.wexog)
    IN  RDiv(dot(resid, resid), Rat(df_resid))

\* lines 111-113
scale_of(m, self, params) ==
    LET wresid == VSub(self.wendog, matvec(self.wexog, params))
        df_resid == NRows(self.wexog) - NCols(self.wexog)
    IN  RDiv(dot(wresid, wresid), Rat(df_resid))

\* line 108: the result's model holds self.weights itself, not a copy
model_of(self) == [weights |-> self.weights]

NoResult ==
    [params |-> None, normalized_cov_params |-> None, resid |-> None,
     model |-> [weights |-> Scalar(Zero)], fittedvalues |-> None,
     scale |-> None]

\* What one call does: it raises LinAlgError (and returns nothing), or it
\* returns a _MinimalWLSResults.  s is the outcome of the dispatch (params
\* and normalized_cov_params, lines 90-106) and f is fitted_values (line
\* 109); each is computed once and bound, as the locals of the code are.
fit(m, self, cov, method, rnd) ==
    CHOOSE out \in
        { IF s.raised THEN [raised |-> "LinAlgError", result |-> NoResult]
          ELSE [raised |-> "",
                result |->
                  [params |-> s.params,
                   normalized_cov_params |-> s.normalized_cov_params,
                   resid |-> resid_of(m, self, f),
                   model |-> model_of(self),
                   fittedvalues |-> f,
                   scale |-> scale_of(m, self, s.params)]] :
          <<s, f>> \in
            { <<t, IF t.raised THEN None
                   ELSE fitted_values_of(m, self, t.params)>> :
              t \in {solve_params(self, cov, method, rnd)} } } : TRUE

\* a variant of self_after_fit: a call that returns keeps its weighted
\* residuals in self.wendog
self_after_fit_keeps_wresid(self, out) ==
    IF out.raised # "" THEN self
    ELSE [self EXCEPT !.wendog =
            VSub(self.wendog, matvec(self.wexog, out.result.params))]

\* fit assigns no attribute of self
self_after_fit(self, out) == self

(***************************************************************************)
(* The inputs.                                                             *)
(***************************************************************************)
Int2Vec(f) == [i \in 1..NObs |-> Rat(f[i])]

\* y = 1, 2, 2, ... and y = 2, 2, 1, ...
Endogs ==
    { Int2Vec([i \in 1..NObs |-> IF i = 1 THEN 1 ELSE 2]),
      Int2Vec([i \in 1..NObs |-> (i * i + 1) % 3]) }

\* a constant and a trend (full rank); a duplicated column; a zero column
Exogs ==
    { [i \in 1..NObs |-> <<Rat(1), Rat(i - 1)>>],
      [i \in 1..NObs |-> <<Rat(i), Rat(i)>>],
      [i \in 1..NObs |-> <<Rat(1), Rat(0)>>] }

\* the caller's two weight arrays
WeightArrays ==
    { << Int2Vec([i \in 1..NObs |-> IF i = 2 THEN 4 ELSE 1]),
         Int2Vec([i \in 1..NObs |-> IF i = 2 THEN 16 ELSE 4]) >>,
      << Int2Vec([i \in 1..NObs |-> IF i = 1 THEN 0 ELSE 1]),
         Int2Vec([i \in 1..NObs |-> 1]) >> }

WeightArgs == {Scalar(Rat(1)), Scalar(Rat(4)), Array("w1"), Array("w2")}

\* "svd" stands for any selector that is none of the three documented ones
Methods == {"pinv", "qr", "lstsq", "svd"}

\* the values the caller writes into a weight array
WriteVals == {Rat(0), Rat(9)}

\* the heaps a run can start from
Mems ==
    { [endog |-> y, exog |-> X, w1 |-> w[1], w2 |-> w[2]] :
        y \in Endogs, X \in Exogs, w \in WeightArrays }

Roundings == {"exact", "residue"}

\* the heaps of the runs in which the caller writes into its weight arrays
MemsCaller ==
    { m \in Mems : /\ m.exog = [i \in 1..NObs |-> <<Rat(1), Rat(i - 1)>>]
                   /\ m.endog[1] = Rat(1)
                   /\ m.w1[2] = Rat(4) }

\* w[i] = v on the array `name` of heap m
write(m, name, i, v) == [m EXCEPT ![name][i] = v]

\* fit, evaluated once for every call on a solver built from an initial heap
\* or from one the caller has written into once: a table of the values of
\* fit, kept only to save evaluating it again.  fit reads the heap only
\* through self.endog and self.exog.
TableMems ==
    Mems \cup { write(m, name, i, v) :
                  m \in MemsCaller, name \in {"w1", "w2"},
                  i \in 1..NObs, v \in WriteVals }

FitTable ==
    [d \in { <<m.endog, m.exog, init(m, "endog", "exog", w), cov, method, rnd>> :
               m \in TableMems, w \in WeightArgs, cov \in BOOLEAN,
               method \in Methods, rnd \in Roundings }
       |-> fit([endog |-> d[1], exog |-> d[2]], d[3], d[4], d[5], d[6])] @@ <<>>

TableKeys == DOMAIN FitTable

call_fit(m, self, cov, method, rnd) ==
    LET d == <<m[self.endog], m[self.exog], self, cov, method, rnd>>
    IN  IF d \in TableKeys THEN FitTable[d]
        ELSE fit(m, self, cov, method, rnd)

Init ==
    /\ mem \in Mems
    /\ rounding \in Roundings
    /\ solver = <<>>
    /\ last = <<>>
    /\ held = <<>>
    /\ nwrites = 0

(***************************************************************************)
(* The operations.                                                         *)
(***************************************************************************)
\* solver = _MinimalWLS(endog, exog, weights): a new instance
Construct(w) ==
    /\ solver' = << init(mem, "endog", "exog", w) >>
    /\ last' = <<>>
    /\ held' = IF held = <<>> THEN held
               ELSE << [held[1] EXCEPT !.cur = FALSE, !.between = FALSE] >>
    /\ UNCHANGED <<mem, rounding, nwrites>>

\* tmp_results = solver.fit(cov, method)
Fit(cov, method) ==
    /\ solver # <<>>
    /\ LET out == call_fit(mem, solver[1], cov, method, rounding)
       IN  /\ last' = << [cov |-> cov, method |-> method, out |-> out] >>
           /\ solver' = << self_after_fit(solver[1], out) >>
    /\ held' = IF held # <<>> /\ held[1].cur
                  /\ (held[1].cov # cov \/ held[1].method # method)
               THEN << [held[1] EXCEPT !.between = TRUE] >>
               ELSE held
    /\ UNCHANGED <<mem, rounding, nwrites>>

\* the caller keeps the outcome of the last call
Retain ==
    /\ last # <<>>
    /\ held' = << [cov |-> last[1].cov, method |-> last[1].method,
                   out |-> last[1].out, cur |-> TRUE, between |-> FALSE] >>
    /\ UNCHANGED <<mem, rounding, solver, last, nwrites>>

\* the caller writes into one of its weight arrays in place: w[i] = v
CallerWrite(name, i, v) ==
    /\ nwrites < MaxWrites
    /\ mem[name][i] # v
    /\ mem' = [mem EXCEPT ![name][i] = v]
    /\ nwrites' = nwrites + 1
    /\ UNCHANGED <<rounding, solver, last, held>>

Next ==
    \/ \E w \in WeightArgs : Construct(w)
    \/ \E cov \in BOOLEAN, method \in Methods : Fit(cov, method)
    \/ Retain

Spec == Init /\ [][Next]_vars

NextCaller ==
    \/ Next
    \/ \E name \in {"w1", "w2"}, i \in 1..NObs, v \in WriteVals :
          CallerWrite(name, i, v)

InitCaller ==
    /\ mem \in MemsCaller
    /\ rounding = "exact"
    /\ solver = <<>>
    /\ last = <<>>
    /\ held = <<>>
    /\ nwrites = 0

SpecCaller == InitCaller /\ [][NextCaller]_vars


(***************************************************************************)
(* Properties.                                                             *)
(***************************************************************************)
Returned(c) == c.out.raised = ""
Res(c) == c.out.result
SameArgs(c1, c2) == c1.cov = c2.cov /\ c1.method = c2.method

\* what a reader of the instance's five attributes sees
SolverView ==
    IF solver = <<>> THEN <<>>
    ELSE << mem[solver[1].endog], mem[solver[1].exog],
            Deref(mem, solver[1].weights), solver[1].wendog,
            solver[1].wexog >>

\* C1: a fit call never changes the solver instance: across every step in
\* which a call delivers its outcome, whatever the method and the cov flag,
\* endog, exog, weights, wendog and wexog read as they did before it (and so
\* as they did right after construction).
C1_FitLeavesSolver ==
    [][(last' # <<>> /\ last' # last) => SolverView' = SolverView]_vars

\* C1 witness: two calls with different methods and flags were made on the
\* instance, one of them raised, and the instance is as __init__ built it.
C1_Witness ==
    /\ held # <<>> /\ last # <<>> /\ held[1].cur /\ held[1].between
    /\ held[1].method = "qr" /\ ~Returned(held[1])
    /\ last[1].method = "pinv" /\ ~last[1].cov /\ Returned(last[1])
    /\ ~isscalar(solver[1].weights)
    /\ solver[1] = init(mem, "endog", "exog", solver[1].weights)

\* C2: a call with the same cov flag and method as an earlier call on the
\* same instance has the same outcome in every field, also when calls with
\* other arguments were made in between.
C2_Idempotent ==
    (held # <<>> /\ last # <<>> /\ held[1].cur /\ SameArgs(held[1], last[1]))
        => last[1].out = held[1].out

\* C2 witness: the second of two identical calls that returned, with a call
\* with other arguments made between them.
C2_Witness ==
    /\ held # <<>> /\ last # <<>> /\ held[1].cur /\ held[1].between
    /\ SameArgs(held[1], last[1])
    /\ Returned(last[1]) /\ last[1].cov /\ last[1].method = "qr"
    /\ last[1].out = held[1].out

\* C3 (as claimed): in every state the scaled data is sqrt(weights) times
\* the data, for the weights the instance stores.
C3_ScaledConsistent ==
    solver # <<>> =>
        /\ solver[1].wendog = wendog_of(mem, solver[1].endog, solver[1].weights)
        /\ solver[1].wexog = wexog_of(mem, solver[1].exog, solver[1].weights)

\* C4 (as claimed): while the caller keeps a result, the weights it reports
\* (model.weights) never read differently, whatever is done to the solver
\* or to the caller's weight arrays.
C4_ResultIsValue ==
    [][(held # <<>> /\ held' # <<>> /\ held'[1].out = held[1].out
          /\ Returned(held[1]))
        => Deref(mem', Res(held[1]).model.weights)
             = Deref(mem, Res(held[1]).model.weights)]_vars

\* C5: a call that returns reports fittedvalues = exog . params and
\* resid = endog - fittedvalues on the unscaled data, so that
\* fittedvalues + resid = endog.
C5_FittedOnOriginal ==
    (last # <<>> /\ Returned(last[1])) =>
        LET r == Res(last[1])
            y == mem[solver[1].endog]
            X == mem[solver[1].exog]
        IN  /\ r.fittedvalues = matvec(X, r.params)
            /\ r.resid = VSub(y, r.fittedvalues)
            /\ VAdd(r.fittedvalues, r.resid) = y

\* C5 witness: a qr fit under unequal weights, where the scaled design gives
\* other fitted values than the ones reported.
C5_Witness ==
    /\ last # <<>> /\ Returned(last[1]) /\ last[1].method = "qr"
    /\ ~isscalar(solver[1].weights)
    /\ solver[1].wexog # mem[solver[1].exog]
    /\ Res(last[1]).fittedvalues # matvec(solver[1].wexog, Res(last[1]).params)
    /\ ~IsZeroVec(Res(last[1]).resid)

\* C6: a call that returns reports scale = wresid.wresid / df_resid with
\* wresid = wendog - wexog . params and df_resid = rows - columns of wexog,
\* whatever the method.
C6_ScaleWeighted ==
    (last # <<>> /\ Returned(last[1])) =>
        LET r == Res(last[1])
            S == solver[1]
            wresid == VSub(S.wendog, matvec(S.wexog, r.params))
        IN  r.scale = RDiv(dot(wresid, wresid),
                           Rat(NRows(S.wexog) - NCols(S.wexog)))

\* C6 witness: a lstsq fit whose scale is not zero and is not the one the
\* unscaled residuals would give.
C6_Witness ==
    /\ last # <<>> /\ Returned(last[1]) /\ last[1].method = "lstsq"
    /\ Res(last[1]).scale # Zero
    /\ Res(last[1]).scale #
         RDiv(dot(Res(last[1]).resid, Res(last[1]).resid),
              Rat(NRows(solver[1].wexog) - NCols(solver[1].wexog)))

\* the weights a result reports, one per observation
WeightVec(w) ==
    IF isscalar(w) THEN [i \in 1..NObs |-> w.val] ELSE mem[w.ref]

Factors == {Rat(4), <<1, 4>>}

\* the kept result is of a solver built with weights w, the last one of a
\* solver built on the same data with weights c.w, by the same method
Rescaled(c) ==
    /\ held # <<>> /\ last # <<>> /\ ~held[1].cur
    /\ Returned(held[1]) /\ Returned(last[1])
    /\ held[1].method = last[1].method
    /\ ~RankDeficient(solver[1].wexog)
    /\ WeightVec(Res(last[1]).model.weights)
         = VScale(c, WeightVec(Res(held[1]).model.weights))

\* C7 (as claimed): weights c.w give the params of weights w, and the scale
\* of weights w multiplied by 1/c.
C7_ScaleByInverse ==
    \A c \in Factors :
        Rescaled(c) =>
            /\ Res(last[1]).params = Res(held[1]).params
            /\ Res(last[1]).scale = RMul(RDiv(One, c), Res(held[1]).scale)

\* C7 (amended): weights c.w give the params of weights w, and the scale of
\* weights w multiplied by c.
C7_ScaleByFactor ==
    \A c \in Factors :
        Rescaled(c) =>
            /\ Res(last[1]).params = Res(held[1]).params
            /\ Res(last[1]).scale = RMul(c, Res(held[1]).scale)

\* C7 witness: per-observation weights multiplied by 4, a nonzero scale.
C7_Witness ==
    /\ Rescaled(Rat(4))
    /\ ~isscalar(solver[1].weights)
    /\ last[1].method = "qr"
    /\ Res(held[1]).scale # Zero

\* C8: normalized_cov_params is None exactly when cov is false and a k x k
\* matrix otherwise; a call with cov false computes no inverse, so that only
\* the qr solve can make it raise; and the flag changes neither params nor
\* fittedvalues, resid or scale.
C8_CovOnlyOnRequest ==
    /\ (last # <<>> /\ Returned(last[1])) =>
          LET ncp == Res(last[1]).normalized_cov_params
              k == NCols(solver[1].wexog)
          IN  /\ (ncp = None) <=> ~last[1].cov
              /\ last[1].cov =>
                   (Len(ncp) = k /\ \A i \in 1..k : Len(ncp[i]) = k)
    /\ (last # <<>> /\ ~last[1].cov /\ last[1].method # "qr")
          => Returned(last[1])
    /\ (held # <<>> /\ last # <<>> /\ held[1].cur
          /\ held[1].method = last[1].method
          /\ Returned(held[1]) /\ Returned(last[1])) =>
          /\ Res(last[1]).params = Res(held[1]).params
          /\ Res(last[1]).fittedvalues = Res(held[1]).fittedvalues
          /\ Res(last[1]).resid = Res(held[1]).resid
          /\ Res(last[1]).scale = Res(held[1]).scale

\* C8 witness: the same method called with cov true and then with cov false
\* on one instance; the first returned a matrix, the second None.
C8_Witness ==
    /\ held # <<>> /\ last # <<>> /\ held[1].cur
    /\ held[1].method = "lstsq" /\ last[1].method = "lstsq"
    /\ held[1].cov /\ ~last[1].cov
    /\ Returned(held[1]) /\ Returned(last[1])
    /\ Len(Res(held[1]).normalized_cov_params) = 2
    /\ Res(last[1]).normalized_cov_params = None

\* C9 (as claimed): a call that raises returns nothing and leaves the solver
\* as built; a rank-deficient design makes a qr call raise, and a pinv call
\* on the same solver return.
C9_QrFailsOnRankDeficient ==
    last # <<>> =>
        /\ ~Returned(last[1]) =>
              /\ Res(last[1]) = NoResult
              /\ solver[1] = init(mem, "endog", "exog", solver[1].weights)
        /\ (last[1].method = "qr" /\ RankDeficient(solver[1].wexog))
              => ~Returned(last[1])
        /\ last[1].method = "pinv" => Returned(last[1])

\* C10: every method value that is neither "pinv" nor "qr" takes the lstsq
\* branch: params is the least squares solution, the covariance is
\* inv(wexog^T . wexog), and the call raises only when cov is true and that
\* matrix is singular; no method value is rejected.
C10_CatchAllIsLstsq ==
    (last # <<>> /\ last[1].method \notin {"pinv", "qr"}) =>
        LET S == solver[1]
            gram == matmul(transpose(S.wexog), S.wexog)
        IN  /\ ~Returned(last[1]) <=> (last[1].cov /\ Singular(gram))
            /\ Returned(last[1]) =>
                  /\ Res(last[1]).params = lstsq(S.wexog, S.wendog)
                  /\ last[1].cov =>
                       Res(last[1]).normalized_cov_params = inv(gram)

\* C10 witness: an unrecognised selector on a rank-deficient design: with
\* cov it raised (pinv would have returned), without cov it returned.
C10_Witness ==
    /\ held # <<>> /\ last # <<>> /\ held[1].cur
    /\ held[1].method = "svd" /\ last[1].method = "svd"
    /\ held[1].cov /\ ~Returned(held[1])
    /\ ~last[1].cov /\ Returned(last[1])

=============================================================================
